---- MODULE Spec2Model ----
(***************************************************************************)
(* Topology and route-change analysis of the mesh telemetry logger.        *)
(*                                                                         *)
(* Four programs of the repository are modelled, one run at a time:        *)
(*   "simple"  SimpleTracerouteAnalyzer   generate_simple_traceroute_...py *)
(*   "viz"     TracerouteVisualizer       generate_traceroute_visual...py  *)
(*   "routes"  routing topology section   routing_topology_analyzer.py     *)
(*   "news"    network news               network_news_analyzer.py         *)
(*                                                                         *)
(* Representation of strings.  A hop field of traceroute_log.csv is kept   *)
(* as the list of its comma-separated pieces, which is what                *)
(* str.split(',') returns: the empty string is <<"">>, "NO_ROUTE" is       *)
(* <<"NO_ROUTE">>, "a, ,b" is <<"a", " ", "b">>.  Node ids hold neither a  *)
(* comma nor the text "->", so the route key f"{u}->{v}" names the ordered *)
(* pair <<u, v>> and nothing else.                                         *)
(***************************************************************************)
EXTENDS Integers, Sequences, FiniteSets, Bags, TLC

(***************************************************************************)
(* Bounds of the model.                                                    *)
(***************************************************************************)
\* longest hop field, in comma-separated pieces, of a noisy traceroute row
MaxHopLen == 3
\* rows of traceroute_log.csv read in one run over noisy rows
MaxRows == 2
\* rows of traceroute_log.csv read in one run over clean two-hop rows
MaxLinks == 4

\* node ids of the clean two-hop rows
NodeIDs == {"a", "b", "c", "d"}
\* node ids of the noisy rows
NoisyNodeIDs == {"a", "b", "c"}
\* pieces of a noisy hop field: an id, a padded id and an empty piece
NoisyTokens == {"b", " a", ""}

\* the words the analyzers test a whole hop field against
SentinelWords == {"NO_ROUTE", "TIMEOUT", "ERROR", "PARSE_ERROR"}

\* all sequences over S of length lo..hi
SeqsOf(S, lo, hi) == UNION {[1..n -> S] : n \in lo..hi}

\* hop fields of the noisy rows: the id lists up to MaxHopLen, the fields of up
\* to three pieces with padded and empty pieces among them, the sentinel words
NoisyFields ==
    SeqsOf(NoisyNodeIDs, 1, MaxHopLen)
    \cup SeqsOf(NoisyTokens, 1, 3)
    \cup {<<w>> : w \in SentinelWords}
\* rows of traceroute_log.csv: recent is timestamp >= cutoff_time, success is
\* row['success'] == 'true'.  Every hop field comes in a recent successful
\* row, and one two-hop field and one sentinel field with every pair of flags
NoisyRows ==
    [recent : {TRUE}, success : {TRUE}, hops : NoisyFields]
    \cup [recent : BOOLEAN, success : BOOLEAN, hops : {<<"a", "b">>, <<"TIMEOUT">>}]
\* clean rows: recent, successful, exactly two hops
LinkRows == [recent : {TRUE}, success : {TRUE}, hops : SeqsOf(NodeIDs, 2, 2)]

(***************************************************************************)
(* Rows of routing_log.csv.  A route_hops string is kept as its hop list   *)
(* and the delimiter that joins it: "comma" for ',', "arrow" for the glyph *)
(* U+2192 and "back" for the glyph U+2190 that replace() may put in its    *)
(* place.  A string of fewer than two hops holds no delimiter, which the   *)
(* representation writes as "comma".  A timestamp is kept as its form and  *)
(* the hour it names.                                                      *)
(***************************************************************************)
\* rows of routing_log.csv read in one run over the wide row set
MaxRouteRows == 2
\* rows of routing_log.csv read in one run over the one-destination row set
MaxHistoryRows == 4
\* longest hop list of a route_hops string of the wide row set
MaxPathLen == 3
\* the hour of datetime.now() at analysis time
Now == 30
\* time_window_hours=24 of analyze_current_routes
DefaultTimeWindowHours == 24

\* the invalid node the routing section excludes
BadIDs == {"!ab123456", "ab123456"}

Directions == {"forward", "return"}

\* the route_hops string of hop list h joined by delimiter sep
Path(sep, h) == [sep |-> IF Len(h) < 2 THEN "comma" ELSE sep, hops |-> h]

\* hop lists of the wide row set: the empty string, the sentinel words, the
\* paths over a, b, c that visit no node twice, and a path through the
\* excluded node
PathNodes == {"a", "b", "c"}
RouteHopLists ==
    {h \in SeqsOf(PathNodes, 0, MaxPathLen) :
        \A i \in 1..Len(h), j \in 1..Len(h) : i # j => h[i] # h[j]}
    \cup {<<w>> : w \in SentinelWords}
    \cup {<<"a", "!ab123456", "b">>}

\* timestamps of a row: inside the window, or one hour outside it
RecentHours == (Now - 1)..Now
OldHour == Now - DefaultTimeWindowHours - 1

RouteRows ==
    [timestamp : [form : {"naive"}, hour : RecentHours \cup {OldHour}],
     destination : {"!d1", "!ab123456"},
     source : {"!s1", "ab123456"},
     direction : Directions,
     route_hops : {Path(sep, h) : sep \in {"comma", "arrow"}, h \in RouteHopLists},
     hop_count : {"2"},
     success : {"true", "false"}]

\* the one-destination row set: three two-hop paths, forward at four recent
\* hours and return at one
HistoryPaths == {Path("comma", h) : h \in {<<"a", "b">>, <<"a", "c">>, <<"b", "c">>}}
HistoryRows ==
    [timestamp : [form : {"naive"}, hour : (Now - 3)..Now],
     destination : {"!d1"},
     source : {"!s1"},
     direction : {"forward"},
     route_hops : HistoryPaths,
     hop_count : {"2"},
     success : {"true"}]
    \cup
    [timestamp : [form : {"naive"}, hour : {Now}],
     destination : {"!d1"},
     source : {"!s1"},
     direction : {"return"},
     route_hops : HistoryPaths,
     hop_count : {"2"},
     success : {"true"}]

\* rows of routing_log.csv read in one run over the malformed row set
MaxBatchRows == 3

\* the malformed row set: two destinations, one path, and among the rows
\* timestamps in every form (with Z, with a positive and with a negative
\* offset, unreadable), a direction that is neither forward nor return, a
\* hop_count that is no number, unsuccessful rows and rows outside the window
BatchRows ==
    [timestamp : [form : {"naive", "Z", "plus", "minus", "garbage"}, hour : {Now}]
                 \cup [form : {"naive"}, hour : {OldHour}],
     destination : {"!d1", "!d2"},
     source : {"!s1"},
     direction : Directions \cup {"sideways"},
     route_hops : {Path("comma", <<"a", "b">>)},
     hop_count : {"2", "x"},
     success : {"true", "false"}]

(***************************************************************************)
(* Rows of nodes_log.csv, read by network_news_analyzer.py.  Times of the  *)
(* node history are counted in ticks, TicksPerHour of them to the hour, so *)
(* that two calls of datetime.now() less than an hour apart can differ.    *)
(***************************************************************************)
\* rows of nodes_log.csv read in one run
MaxNodeRows == 3
\* the ticks of timedelta(hours=1)
TicksPerHour == 2
\* datetime.now() while load_nodes_history runs
LoadTick == Now * TicksPerHour
\* how much later datetime.now() is when filter_by_time_and_hops runs
Elapsed == {0, 1}

\* NEWS_TIME_WINDOW and NEWS_MAX_HOPS of the configuration
NewsConfigs == [time_window_hours : {0, 1, 2}, max_hops : {2}]

\* a cell that holds no timestamp
NoTime == [form |-> "N/A", value |-> 0]
\* a LastHeard cell '%Y-%m-%d %H:%M:%S' that names tick t
HeardAt(t) == [form |-> "datetime", value |-> t]
\* a Since cell 'n hours ago'
HoursAgo(n) == [form |-> "hours ago", value |-> n]

\* rows of nodes_log.csv: heard an hour ago or more than two hours ago, or
\* never heard and with or without a Since cell; two, three or unknown hops
NodeRows ==
    [ID : {"!n1"},
     LastHeard : {HeardAt(LoadTick - TicksPerHour), HeardAt(LoadTick - 2 * TicksPerHour - 1)},
     Since : {NoTime},
     Hops : {"2", "3", "?"}]
    \cup
    [ID : {"!n1"},
     LastHeard : {NoTime},
     Since : {NoTime, HoursAgo(1)},
     Hops : {"2", "3", "?"}]

(***************************************************************************)
(* Rows for the topology analysis of the visualizer: three routes over two *)
(* nodes, and long routes from node "1" of which three together make a     *)
(* graph of exactly, or of one more than, the number of nodes that         *)
(* analyze_topology computes the centrality for.                           *)
(***************************************************************************)
\* rows of traceroute_log.csv read in one run before the topology analysis
MaxTopoRows == 3
\* self.graph.number_of_nodes() <= 50
CentralityLimit == 50

\* the route from node "1" over the nodes named first to last
LongRoute(first, last) ==
    <<"1">> \o [i \in 1..(last - first + 1) |-> ToString(first + i - 1)]

\* a third of the nodes of the largest graph with a centrality
Third == CentralityLimit \div 3

\* three long routes that cover nodes "1" to "50", and a fourth that reaches "51"
LongRoutes ==
    {LongRoute(2, Third + 1),
     LongRoute(Third + 2, 2 * Third + 1),
     LongRoute(2 * Third + 2, CentralityLimit),
     LongRoute(2 * Third + 2, CentralityLimit + 1)}

TopoRows ==
    [recent : {TRUE},
     success : {TRUE},
     hops : {<<"a">>, <<"a", "b">>, <<"b", "a">>} \cup LongRoutes]

(***************************************************************************)
(* Rows with their age, for the recency window of the three programs.      *)
(***************************************************************************)
\* rows read in one run over the dated row sets
MaxWindowRows == 3
\* hours=24 of load_traceroute_data
DefaultHours == 24

\* values of the --hours option: below, at and above its default
HoursOptions == {1, DefaultHours, 2 * DefaultHours}

\* the hours rows are dated at: now, two hours ago, and six hours beyond one
\* and two default windows
RowHours == {Now, Now - 2, Now - DefaultHours - 6, Now - 2 * DefaultHours - 6}

\* dated rows of traceroute_log.csv: a route of one hop and a route of three
DatedRows ==
    [timestamp : RowHours,
     success : BOOLEAN,
     hops : {<<"a", "b">>, <<"a", "b", "c", "d">>}]

\* dated rows of routing_log.csv: hop counts of two and of three
DatedRouteRows ==
    [timestamp : [form : {"naive"}, hour : RowHours],
     destination : {"!d1"},
     source : {"!s1"},
     direction : Directions,
     route_hops : {Path("comma", <<"a", "b">>)},
     hop_count : {"2", "3"},
     success : {"true"}]

VARIABLES
    analysis,           \* the dict returned by TracerouteVisualizer.analyze_topology
                        \* or by SimpleTracerouteAnalyzer.generate_statistics_json
    args_hours,         \* main: args.hours of the traceroute programs
    news_cfg,           \* network news: [time_window_hours, max_hops]
    news_nodes,         \* load_nodes_history: the list nodes
    news_filtered,      \* filter_by_time_and_hops: the list filtered
    news_clock,         \* the value of the latest datetime.now()
    state_file,         \* network_state.json: id -> the fields saved for the node
    news,               \* analyze_network_changes: the dict news
    run,                \* history: 1 in the first run of the network news, then 2
    pc,                 \* "load", then "analyzed", "reported", "failed", "filtered",
                        \* "returned", "raised", "saved"
    routes_by_dest,     \* analyze_current_routes: dest -> direction -> entries
    route_changes,      \* analyze_current_routes: dest -> direction -> change
    report,             \* generate_topology_html: what the section shows
    program,            \* which program of the repository is running
    nread,              \* rows read from the log so far
    connections,        \* SimpleTracerouteAnalyzer.connections : node -> set of nodes
    route_counts,       \* SimpleTracerouteAnalyzer.route_counts : route key -> count
    routes,             \* len(SimpleTracerouteAnalyzer.routes)
    graph,              \* TracerouteVisualizer.graph : [nodes, weight]
    viz_route_counts,   \* TracerouteVisualizer.route_counts
    added,              \* history: bag of the hop lists whose pairs were recorded
    log_file,           \* the input log on disk: [state, rows]
    handle,             \* the program's handle on it: "unopened", "open", "closed",
                        \* "absent" (os.path.exists was false), "denied" (open raised)
    len_at_open         \* history: the number of rows on disk when it was opened

buildVars == <<connections, route_counts, routes, graph, viz_route_counts, added, analysis>>
routeVars == <<pc, routes_by_dest, route_changes, report>>
newsVars == <<args_hours, news_cfg, news_nodes, news_filtered, news_clock, state_file,
             news, run>>
fileVars == <<log_file, handle, len_at_open>>
vars == <<program, nread, buildVars, routeVars, newsVars, fileVars>>

(***************************************************************************)
(* Dictionaries are functions whose domain is the set of keys present.     *)
(***************************************************************************)
EmptyDict == [k \in {} |-> 0]

\* d.get(k, set())
GetSet(d, k) == IF k \in DOMAIN d THEN d[k] ELSE {}

\* defaultdict(set): d[k].add(v)
DictSetAdd(d, k, v) ==
    [x \in DOMAIN d \cup {k} |-> IF x = k THEN GetSet(d, k) \cup {v} ELSE d[x]]

\* a mutant of DictIncr: the count restarts at 1 on every observation
DictIncrReset(d, k) == [x \in DOMAIN d \cup {k} |-> IF x = k THEN 1 ELSE d[x]]

\* defaultdict(int): d[k] += 1
DictIncr(d, k) ==
    [x \in DOMAIN d \cup {k} |->
        IF x = k THEN (IF k \in DOMAIN d THEN d[k] ELSE 0) + 1 ELSE d[x]]

\* f"{from_node}->{to_node}"
RouteKey(from_node, to_node) == <<from_node, to_node>>

\* hop.strip()
Strip(hop) == IF hop = " a" THEN "a" ELSE hop

\* [hop.strip() for hop in hops_str.split(',') if hop.strip()]
ParseHops(hops_str) ==
    SelectSeq([i \in 1..Len(hops_str) |-> Strip(hops_str[i])], LAMBDA h : h # "")

\* not hops_str or hops_str in ['NO_ROUTE', 'TIMEOUT', 'ERROR', 'PARSE_ERROR']
RouteGuard(hops_str) ==
    hops_str = <<"">> \/ (Len(hops_str) = 1 /\ hops_str[1] \in SentinelWords)

(***************************************************************************)
(* SimpleTracerouteAnalyzer.analyze_route                                  *)
(***************************************************************************)
RECURSIVE RecordConnections(_, _, _)
\* for i in range(len(hops) - 1): the loop from index i on
RecordConnections(st, hops, i) ==
    IF i > Len(hops) - 1 THEN st
    ELSE LET from_node == hops[i]
             to_node == hops[i + 1]
         IN RecordConnections(
                [connections |-> DictSetAdd(st.connections, from_node, to_node),
                 route_counts |-> DictIncr(st.route_counts, RouteKey(from_node, to_node))],
                hops, i + 1)

\* analyze_route(target, hops_str) on the fields st = [connections, route_counts]
AnalyzeRoute(st, hops_str) ==
    IF RouteGuard(hops_str) THEN st
    ELSE LET hops == ParseHops(hops_str)
         IN IF hops = <<>> THEN st ELSE RecordConnections(st, hops, 1)

\* the hop list whose pairs a call of analyze_route / add_route_to_graph records,
\* as a bag: empty when the call returns before parsing or on an empty list
Recorded(hops_str) ==
    IF RouteGuard(hops_str) \/ ParseHops(hops_str) = <<>> THEN EmptyBag
    ELSE SetToBag({ParseHops(hops_str)})

\* row['hops'] not in ['NO_ROUTE', 'TIMEOUT', 'ERROR']
SimpleLoadGuard(hops_str) ==
    ~(Len(hops_str) = 1 /\ hops_str[1] \in {"NO_ROUTE", "TIMEOUT", "ERROR"})

\* one iteration of the row loop of SimpleTracerouteAnalyzer.load_traceroute_data
SimpleLoadRow(row) ==
    /\ program = "simple"
    /\ nread' = nread + 1
    /\ IF row.recent /\ row.success /\ SimpleLoadGuard(row.hops)
       THEN LET st == AnalyzeRoute([connections |-> connections,
                                    route_counts |-> route_counts], row.hops)
            IN /\ connections' = st.connections
               /\ route_counts' = st.route_counts
               /\ routes' = routes + 1
               /\ added' = added (+) Recorded(row.hops)
       ELSE UNCHANGED <<connections, route_counts, routes, added>>
    /\ UNCHANGED <<program, graph, viz_route_counts, analysis, routeVars, newsVars, fileVars>>

(***************************************************************************)
(* TracerouteVisualizer.add_route_to_graph on a networkx DiGraph           *)
(***************************************************************************)
EmptyGraph == [nodes |-> {}, weight |-> EmptyDict]

\* for hop in hops: if hop not in self.graph: self.graph.add_node(hop)
AddNodes(g, hops) == [g EXCEPT !.nodes = @ \cup {hops[i] : i \in 1..Len(hops)}]

\* graph[u][v]['weight'] += 1 if has_edge(u, v) else add_edge(u, v, weight=1);
\* DiGraph.add_edge also adds both end nodes
AddOrUpdateEdge(g, u, v) ==
    [nodes |-> g.nodes \cup {u, v},
     weight |-> IF <<u, v>> \in DOMAIN g.weight
                THEN [g.weight EXCEPT ![<<u, v>>] = @ + 1]
                ELSE [x \in DOMAIN g.weight \cup {<<u, v>>} |->
                        IF x = <<u, v>> THEN 1 ELSE g.weight[x]]]

RECURSIVE AddEdges(_, _, _)
\* for i in range(len(hops) - 1): the loop from index i on
AddEdges(st, hops, i) ==
    IF i > Len(hops) - 1 THEN st
    ELSE LET from_node == hops[i]
             to_node == hops[i + 1]
         IN AddEdges(
                [graph |-> AddOrUpdateEdge(st.graph, from_node, to_node),
                 route_counts |-> DictIncr(st.route_counts, RouteKey(from_node, to_node))],
                hops, i + 1)

\* add_route_to_graph(target, hops_str) on the fields st = [graph, route_counts]
AddRouteToGraph(st, hops_str) ==
    IF RouteGuard(hops_str) THEN st
    ELSE LET hops == ParseHops(hops_str)
         IN IF hops = <<>> THEN st
            ELSE AddEdges([st EXCEPT !.graph = AddNodes(st.graph, hops)], hops, 1)

\* one iteration of the row loop of TracerouteVisualizer.load_traceroute_data
VizLoadRow(row) ==
    /\ program = "viz"
    /\ nread' = nread + 1
    /\ IF row.recent /\ row.success /\ row.hops # <<"NO_ROUTE">>
       THEN LET st == AddRouteToGraph([graph |-> graph,
                                       route_counts |-> viz_route_counts], row.hops)
            IN /\ graph' = st.graph
               /\ viz_route_counts' = st.route_counts
               /\ added' = added (+) Recorded(row.hops)
       ELSE UNCHANGED <<graph, viz_route_counts, added>>
    /\ UNCHANGED <<program, connections, route_counts, routes, analysis, routeVars, newsVars,
                   fileVars>>

(***************************************************************************)
(* Specifications of the two graph builders.                               *)
(***************************************************************************)
NoReport == [status |-> EmptyDict, total_destinations |-> 0, successful_routes |-> 0,
             route_changes |-> 0, asymmetric_routes |-> 0, error |-> FALSE]

\* the configuration load_config returns when .env sets neither value
DefaultNewsConfig == [time_window_hours |-> 24, max_hops |-> 2]

\* a log without rows that can be read
EmptyLog == [state |-> "readable", rows |-> <<>>]

\* the dict news before any node is entered
NoNews == [new_nodes |-> <<>>, lost_nodes |-> {}, total_active_nodes |-> 0]

\* the fields of a program at its start; network_state.json does not exist yet
InitProgram ==
    /\ nread = 0
    /\ state_file = EmptyDict
    /\ news = NoNews
    /\ run = 1
    /\ news_nodes = <<>>
    /\ news_filtered = <<>>
    /\ news_clock = LoadTick
    /\ pc = "load"
    /\ routes_by_dest = EmptyDict
    /\ route_changes = EmptyDict
    /\ report = NoReport
    /\ connections = EmptyDict
    /\ route_counts = EmptyDict
    /\ routes = 0
    /\ graph = EmptyGraph
    /\ viz_route_counts = EmptyDict
    /\ added = EmptyBag
    /\ analysis = EmptyDict

\* a run whose rows are drawn one by one as the reader yields them: the log
\* is open and its rows on disk are not kept
InitFields ==
    /\ InitProgram
    /\ log_file = EmptyLog
    /\ handle = "open"
    /\ len_at_open = 0

\* the options of a run started without any
DefaultOptions == args_hours = DefaultHours /\ news_cfg = DefaultNewsConfig

InitBuild == program \in {"simple", "viz"} /\ DefaultOptions /\ InitFields

\* a run over noisy rows
Next ==
    \/ \E row \in NoisyRows : nread < MaxRows /\ SimpleLoadRow(row)
    \/ \E row \in NoisyRows : nread < MaxRows /\ VizLoadRow(row)

Spec == InitBuild /\ [][Next]_vars

\* a run over clean two-hop rows
NextLinks ==
    \/ \E row \in LinkRows : nread < MaxLinks /\ SimpleLoadRow(row)
    \/ \E row \in LinkRows : nread < MaxLinks /\ VizLoadRow(row)

SpecLinks == InitBuild /\ [][NextLinks]_vars

(***************************************************************************)
(* routing_topology_analyzer.py: generate_routing_topology_section, which  *)
(* filters the rows, analyzes them with the default window and renders.    *)
(* The signal_strengths column is copied through unread and is left out.   *)
(***************************************************************************)
\* r.get('destination') not in bad and r.get('source') not in bad, and the
\* destination filter analyze_current_routes repeats
Excluded(row) == row.destination \in BadIDs \/ row.source \in BadIDs

\* the timestamp parse of analyze_current_routes: a trailing Z and a +offset
\* are cut off and the written hour is kept; a timestamp with a negative
\* offset ("minus") has neither, so fromisoformat returns an aware datetime;
\* fromisoformat raises ValueError on anything else it cannot read
ParseTimestamp(ts) ==
    CASE ts.form \in {"naive", "Z", "plus"} -> [ok |-> TRUE, aware |-> FALSE, value |-> ts.hour]
      [] ts.form = "minus" -> [ok |-> TRUE, aware |-> TRUE, value |-> ts.hour]
      [] OTHER -> [ok |-> FALSE, aware |-> FALSE, value |-> 0]

\* int(route['hop_count']) if route['hop_count'] else 0
ParseHopCount(str) ==
    CASE str = "" -> [ok |-> TRUE, value |-> 0]
      [] str = "1" -> [ok |-> TRUE, value |-> 1]
      [] str = "2" -> [ok |-> TRUE, value |-> 2]
      [] str = "3" -> [ok |-> TRUE, value |-> 3]
      [] OTHER -> [ok |-> FALSE, value |-> 0]

\* routes_by_dest[dest] = {'forward': [], 'return': []} if dest is not a key
WithDest(by_dest, dest) ==
    IF dest \in DOMAIN by_dest THEN by_dest
    ELSE [d \in DOMAIN by_dest \cup {dest} |->
            IF d = dest THEN [dir \in Directions |-> <<>>] ELSE by_dest[d]]

\* the body of the row loop of analyze_current_routes on one row that passed
\* the filters: the new routes_by_dest
AnalyzeRow(by_dest, row, time_window_hours) ==
    LET ts == ParseTimestamp(row.timestamp)
        with_dest == WithDest(by_dest, row.destination)
        hc == ParseHopCount(row.hop_count)
    IN IF ~ts.ok THEN by_dest
       ELSE IF Now - ts.value > time_window_hours THEN by_dest
       ELSE IF row.direction \notin Directions THEN with_dest
       ELSE IF ~hc.ok THEN with_dest
       ELSE [with_dest EXCEPT ![row.destination][row.direction] =
                Append(@, [timestamp |-> ts.value,
                           route_hops |-> row.route_hops,
                           hop_count |-> hc.value,
                           success |-> row.success = "true"])]

\* the exception that leaves the row loop on this row: cutoff_time - timestamp
\* raises TypeError when timestamp is aware, and the loop catches only
\* ValueError and KeyError
Escapes(row) ==
    LET ts == ParseTimestamp(row.timestamp)
    IN IF ts.ok /\ ts.aware THEN "TypeError" ELSE "none"

\* what generate_routing_topology_section returns from its except clause
ErrorReport == [NoReport EXCEPT !.error = TRUE]

\* one row of routing_log.csv through the filters and the row loop; an
\* exception that leaves the loop ends analyze_current_routes, and the section
\* returns its error text
RouteRow(row) ==
    /\ program = "routes"
    /\ pc = "load"
    /\ nread' = nread + 1
    /\ IF ~Excluded(row) /\ Escapes(row) # "none"
       THEN /\ pc' = "failed"
            /\ report' = ErrorReport
            /\ UNCHANGED routes_by_dest
       ELSE /\ routes_by_dest' =
                  IF Excluded(row) THEN routes_by_dest
                  ELSE AnalyzeRow(routes_by_dest, row, DefaultTimeWindowHours)
            /\ UNCHANGED <<pc, report>>
    /\ UNCHANGED <<program, route_changes, buildVars, newsVars, fileVars>>

\* a mutant of SortByTimestamp: the list is left in the order read
Unsorted(entries) == entries

\* a mutant of InsertByTimestamp: the entry is put at the end
InsertLast(sorted, entry) == Append(sorted, entry)

\* entry put into the ascending list sorted, after the entries that are not later
InsertByTimestamp(sorted, entry) ==
    LET k == Cardinality({i \in 1..Len(sorted) : sorted[i].timestamp <= entry.timestamp})
    IN SubSeq(sorted, 1, k) \o <<entry>> \o SubSeq(sorted, k + 1, Len(sorted))

RECURSIVE SortByTimestamp(_)
\* list.sort(key=lambda x: x['timestamp']), a stable sort
SortByTimestamp(entries) ==
    IF entries = <<>> THEN <<>>
    ELSE InsertByTimestamp(SortByTimestamp(SubSeq(entries, 1, Len(entries) - 1)),
                           entries[Len(entries)])

\* a mutant of CurrentNotInPrevious: only the entry before the newest is compared
CurrentNotLast(history) ==
    history[Len(history)].route_hops # history[Len(history) - 1].route_hops

\* current_route not in previous_routes
CurrentNotInPrevious(history) ==
    \A i \in 1..(Len(history) - 1) :
        history[i].route_hops # history[Len(history)].route_hops

\* a mutant of HasChange: every history of two entries or more has a change
LongerThanOne(history) == Len(history) > 1

\* len(history) > 1 and current_route not in previous_routes
HasChange(history) == Len(history) > 1 /\ CurrentNotInPrevious(history)

\* the route_changes entry of a history that has a change
ChangeOf(history) ==
    [current |-> history[Len(history)].route_hops,
     previous |-> history[Len(history) - 1].route_hops,
     changed_at |-> history[Len(history)].timestamp]

\* the sort and change detection loop of analyze_current_routes
DetectChanges ==
    /\ program = "routes"
    /\ pc = "load"
    /\ LET sorted == [d \in DOMAIN routes_by_dest |->
                        [dir \in Directions |-> SortByTimestamp(routes_by_dest[d][dir])]]
           changed(d) == {dir \in Directions : HasChange(sorted[d][dir])}
       IN /\ routes_by_dest' = sorted
          /\ route_changes' =
                [d \in {x \in DOMAIN sorted : changed(x) # {}} |->
                    [dir \in changed(d) |-> ChangeOf(sorted[d][dir])]]
    /\ pc' = "analyzed"
    /\ UNCHANGED <<program, nread, report, buildVars, newsVars, fileVars>>

\* route_hops.replace(arrow glyph, back-arrow glyph)
ReplaceArrow(path) == IF path.sep = "arrow" THEN [path EXCEPT !.sep = "back"] ELSE path

\* the status text generate_topology_html gives a destination
StatusOf(dest_data) ==
    LET fwd == dest_data["forward"]
        ret == dest_data["return"]
    IN IF fwd # <<>> /\ ret # <<>>
       THEN IF fwd[Len(fwd)].route_hops = ReplaceArrow(ret[Len(ret)].route_hops)
            THEN "Symmetric route"
            ELSE "Asymmetric route"
       ELSE IF fwd # <<>> \/ ret # <<>> THEN "Partial route"
       ELSE "Route failed"

\* generate_topology_html: the summary numbers and the status of every destination
GenerateTopology ==
    /\ program = "routes"
    /\ pc = "analyzed"
    /\ report' =
          IF DOMAIN routes_by_dest = {} THEN NoReport
          ELSE [status |-> [d \in DOMAIN routes_by_dest |-> StatusOf(routes_by_dest[d])],
                total_destinations |-> Cardinality(DOMAIN routes_by_dest),
                successful_routes |->
                    Cardinality({d \in DOMAIN routes_by_dest :
                        \E dir \in Directions :
                            \E i \in 1..Len(routes_by_dest[d][dir]) :
                                routes_by_dest[d][dir][i].success}),
                route_changes |-> Cardinality(DOMAIN route_changes),
                asymmetric_routes |->
                    Cardinality({d \in DOMAIN routes_by_dest :
                        /\ d \in DOMAIN route_changes
                        /\ DOMAIN route_changes[d] \cap Directions # {}}),
                error |-> FALSE]
    /\ pc' = "reported"
    /\ UNCHANGED <<program, nread, routes_by_dest, route_changes, buildVars, newsVars,
                   fileVars>>

InitRoutes == program = "routes" /\ DefaultOptions /\ InitFields

\* a run of the routing section over the wide row set
NextRoutes ==
    \/ \E row \in RouteRows : nread < MaxRouteRows /\ RouteRow(row)
    \/ DetectChanges
    \/ GenerateTopology

SpecRoutes == InitRoutes /\ [][NextRoutes]_vars

\* a run of the routing section over the one-destination row set
NextHistory ==
    \/ \E row \in HistoryRows : nread < MaxHistoryRows /\ RouteRow(row)
    \/ DetectChanges
    \/ GenerateTopology

SpecHistory == InitRoutes /\ [][NextHistory]_vars

\* a run of the routing section over the malformed row set
NextBatch ==
    \/ \E row \in BatchRows : nread < MaxBatchRows /\ RouteRow(row)
    \/ DetectChanges
    \/ GenerateTopology

SpecBatch == InitRoutes /\ [][NextBatch]_vars

(***************************************************************************)
(* The recency window of the three programs.  main of the two traceroute   *)
(* programs parses --hours and then constructs the analyzer, whose         *)
(* __init__ calls self.load_traceroute_data() without an argument.         *)
(***************************************************************************)
\* the hours parameter of load_traceroute_data in the call made by __init__
LoadHours == DefaultHours

\* timestamp >= cutoff_time, with cutoff_time = datetime.now() - timedelta(hours=hours)
Recent(timestamp, hours) == timestamp >= Now - hours

\* a mutant of Undated: max_hops of the network news caps the hops as well
UndatedCapped(row) ==
    [recent |-> Recent(row.timestamp, LoadHours) /\ Len(row.hops) - 1 <= 2,
     success |-> row.success, hops |-> row.hops]

\* the dated row as the row loop sees it
Undated(row) ==
    [recent |-> Recent(row.timestamp, LoadHours), success |-> row.success, hops |-> row.hops]

\* one dated row through the row loop of SimpleTracerouteAnalyzer
DatedSimpleLoadRow(row) == SimpleLoadRow(Undated(row))

\* one dated row through the row loop of TracerouteVisualizer
DatedVizLoadRow(row) == VizLoadRow(Undated(row))

InitWindow ==
    /\ program \in {"simple", "viz", "routes"}
    /\ args_hours \in (IF program = "routes" THEN {DefaultHours} ELSE HoursOptions)
    /\ news_cfg = DefaultNewsConfig
    /\ InitFields

\* a run of any of the three programs over dated rows
NextWindow ==
    \/ \E row \in DatedRows : nread < MaxWindowRows /\ DatedSimpleLoadRow(row)
    \/ \E row \in DatedRows : nread < MaxWindowRows /\ DatedVizLoadRow(row)
    \/ \E row \in DatedRouteRows : nread < MaxWindowRows /\ RouteRow(row)
    \/ DetectChanges
    \/ GenerateTopology

SpecWindow == InitWindow /\ [][NextWindow]_vars

(***************************************************************************)
(* network_news_analyzer.py: load_nodes_history and the window filter      *)
(* filter_by_time_and_hops that analyze_network_changes applies first.     *)
(***************************************************************************)
\* parse_timestamp: the datetime of a cell in one of its formats, else None
ParseNodeTimestamp(cell) ==
    IF cell.form = "datetime" THEN [none |-> FALSE, value |-> cell.value]
    ELSE [none |-> TRUE, value |-> 0]

\* parse_since_duration: now minus the duration of an 'n hours ago' cell, else None
ParseSinceDuration(cell, now) ==
    IF cell.form = "hours ago"
    THEN [none |-> FALSE, value |-> now - cell.value * TicksPerHour]
    ELSE [none |-> TRUE, value |-> 0]

\* int(row.get('Hops', 0)) if row.get('Hops', '').isdigit() else 0
ParseNodeHops(str) ==
    CASE str = "0" -> 0
      [] str = "1" -> 1
      [] str = "2" -> 2
      [] str = "3" -> 3
      [] OTHER -> 0

\* the dict load_nodes_history appends for a row, of which the fields the
\* filter reads and the two cells copied through are kept
NodeOf(row, now) ==
    LET last_heard == ParseNodeTimestamp(row.LastHeard)
        since_time == ParseSinceDuration(row.Since, now)
    IN [id |-> row.ID,
        hops |-> ParseNodeHops(row.Hops),
        timestamp |-> IF ~last_heard.none THEN last_heard.value
                      ELSE IF ~since_time.none THEN since_time.value
                      ELSE now,
        last_heard |-> row.LastHeard,
        since |-> row.Since]

\* one iteration of the row loop of load_nodes_history
LoadNode(row) ==
    /\ program = "news"
    /\ pc = "load"
    /\ nread' = nread + 1
    /\ news_nodes' = Append(news_nodes, NodeOf(row, news_clock))
    /\ UNCHANGED <<program, pc, args_hours, news_cfg, news_filtered, news_clock, state_file,
                   news, run, buildVars, routes_by_dest, route_changes, report, fileVars>>

\* a mutant of TooManyHops: a node at exactly max_hops is dropped as well
TooManyHopsFromCap(node, max_hops) == node.hops >= max_hops

\* node['hops'] > max_hops
TooManyHops(node, max_hops) == node.hops > max_hops

\* node['timestamp'] and node['timestamp'] < cutoff_time; a datetime is
\* never falsy
TooOld(node, cutoff_time) == node.timestamp < cutoff_time

RECURSIVE FilterLoop(_, _, _, _, _)
\* for node in nodes: the loop from index i on, filtered being the list so far
FilterLoop(nodes, i, cutoff_time, max_hops, filtered) ==
    IF i > Len(nodes) THEN filtered
    ELSE IF TooOld(nodes[i], cutoff_time)
         THEN FilterLoop(nodes, i + 1, cutoff_time, max_hops, filtered)
    ELSE IF TooManyHops(nodes[i], max_hops)
         THEN FilterLoop(nodes, i + 1, cutoff_time, max_hops, filtered)
    ELSE FilterLoop(nodes, i + 1, cutoff_time, max_hops, Append(filtered, nodes[i]))

\* filter_by_time_and_hops(nodes, time_window_hours, max_hops) called at now
FilterByTimeAndHops(nodes, time_window_hours, max_hops, now) ==
    FilterLoop(nodes, 1, now - time_window_hours * TicksPerHour, max_hops, <<>>)

\* analyze_network_changes filters the loaded nodes, some time after the load
FilterNodes ==
    /\ program = "news"
    /\ pc = "load"
    /\ \E e \in Elapsed : news_clock' = news_clock + e
    /\ news_filtered' = FilterByTimeAndHops(news_nodes, news_cfg.time_window_hours,
                                            news_cfg.max_hops, news_clock')
    /\ pc' = "filtered"
    /\ UNCHANGED <<program, nread, args_hours, news_cfg, news_nodes, state_file, news, run,
                   buildVars, routes_by_dest, route_changes, report, fileVars>>

InitNews ==
    program = "news" /\ args_hours = DefaultHours /\ news_cfg \in NewsConfigs /\ InitFields

\* a run of the network news analyzer up to the filtered node list
NextNews ==
    \/ \E row \in NodeRows : nread < MaxNodeRows /\ LoadNode(row)
    \/ FilterNodes

SpecNews == InitNews /\ [][NextNews]_vars

(***************************************************************************)
(* The topology the two builders expose.                                   *)
(***************************************************************************)
\* all_nodes of generate_text_topology / generate_statistics_json
AllNodes == DOMAIN connections \cup UNION {connections[n] : n \in DOMAIN connections}

\* the edges of the program that runs, as ordered pairs
Edges ==
    IF program = "simple"
    THEN {<<u, v>> \in NodeIDs \X NodeIDs : v \in GetSet(connections, u)}
    ELSE DOMAIN graph.weight

\* the nodes of the program that runs
Nodes == IF program = "simple" THEN AllNodes ELSE graph.nodes

\* the weight table of the program that runs: route_counts, and for the
\* visualizer the edge attribute 'weight' as well
Weights == IF program = "simple" THEN route_counts ELSE graph.weight

\* outgoing of generate_statistics_json: len(self.connections.get(node, set()))
Outgoing(node) == Cardinality(GetSet(connections, node))

\* incoming: sum(1 for connections in self.connections.values() if node in connections)
Incoming(node) == Cardinality({k \in DOMAIN connections : node \in connections[k]})

\* node_degrees of SimpleTracerouteAnalyzer.generate_statistics_json
SimpleNodeStats ==
    [node \in AllNodes |->
        LET total_degree == Outgoing(node) + Incoming(node)
        IN [outgoing |-> Outgoing(node),
            incoming |-> Incoming(node),
            total_connections |-> total_degree,
            is_hub |-> total_degree > 2,
            is_endpoint |-> total_degree = 1]]

RECURSIVE SumWeights(_, _)
\* the sum of the weights w over the edges E
SumWeights(w, E) ==
    IF E = {} THEN 0
    ELSE LET e == CHOOSE x \in E : TRUE IN w[e] + SumWeights(w, E \ {e})

\* a mutant of OutDegree: the degree weighted by the observation count
WeightedOutDegree(g, node) ==
    SumWeights(g.weight, {e \in DOMAIN g.weight : e[1] = node})

\* DiGraph.out_degree(node): the number of successors
OutDegree(g, node) == Cardinality({e \in DOMAIN g.weight : e[1] = node})

\* DiGraph.in_degree(node): the number of predecessors
InDegree(g, node) == Cardinality({e \in DOMAIN g.weight : e[2] = node})

\* DiGraph.degree(node): in_degree + out_degree, a self-loop counted twice
Degree(g, node) == InDegree(g, node) + OutDegree(g, node)

\* stats['node_stats'] of TracerouteVisualizer.generate_route_statistics
VizNodeStats ==
    [node \in graph.nodes |->
        [outgoing |-> OutDegree(graph, node),
         incoming |-> InDegree(graph, node),
         total_connections |-> Degree(graph, node),
         is_hub |-> Degree(graph, node) > 2,
         is_endpoint |-> Degree(graph, node) = 1]]

\* the per-node statistics of the program that runs
NodeStats == IF program = "simple" THEN SimpleNodeStats ELSE VizNodeStats

\* a mutant of SimpleRole: a node of degree 2 already counts as a hub
SimpleRoleFromTwo(total) ==
    IF total >= 2 THEN "HUB" ELSE IF total > 1 THEN "RELAY" ELSE "END"

\* role of generate_text_topology
SimpleRole(total) ==
    IF total > 2 THEN "HUB" ELSE IF total > 1 THEN "RELAY" ELSE "END"

\* node colour of generate_network_topology, named by its legend entry:
\* '#FF6B6B' Hub Nodes, '#4ECDC4' Intermediate Nodes (relays), '#45B7D1' End Nodes
VizRole(degree) ==
    IF degree > 2 THEN "HUB" ELSE IF degree > 1 THEN "RELAY" ELSE "END"

\* the role each program gives each of its nodes
Roles ==
    IF program = "simple"
    THEN [node \in AllNodes |-> SimpleRole(SimpleNodeStats[node].total_connections)]
    ELSE [node \in graph.nodes |-> VizRole(Degree(graph, node))]

(***************************************************************************)
(* TracerouteVisualizer.analyze_topology.  A number of the report is kept  *)
(* as the fraction num/den, not reduced, and a text as itself.             *)
(***************************************************************************)
Number(num, den) == [text |-> "", num |-> num, den |-> den]
Text(str) == [text |-> str, num |-> 0, den |-> 1]
\* None, and a node, as the value of most_central_node
None == [none |-> TRUE, node |-> ""]
Some(node) == [none |-> FALSE, node |-> node]

\* the successors of every node in the DiGraph
DirectedAdj(g) ==
    [n \in g.nodes |-> {e[2] : e \in {x \in DOMAIN g.weight : x[1] = n}}]

\* the neighbours of every node in G.to_undirected()
UndirectedAdj(g) ==
    [n \in g.nodes |-> {e[2] : e \in {x \in DOMAIN g.weight : x[1] = n}}
                       \cup {e[1] : e \in {x \in DOMAIN g.weight : x[2] = n}}]

RECURSIVE BreadthFirst(_, _, _, _)
\* breadth-first search: dist holds the nodes reached so far, frontier those
\* at distance d
BreadthFirst(adj, frontier, dist, d) ==
    LET next == (UNION {adj[n] : n \in frontier}) \ DOMAIN dist
    IN IF next = {} THEN dist
       ELSE BreadthFirst(adj, next, dist @@ [n \in next |-> d + 1], d + 1)

\* single-source shortest path lengths: the nodes reachable from source
\* with their distance
ShortestPathLengths(adj, source) == BreadthFirst(adj, {source}, (source :> 0), 0)

RECURSIVE CountComponents(_, _)
\* the components found among the nodes not yet seen
CountComponents(adj, unseen) ==
    IF unseen = {} THEN 0
    ELSE LET n == CHOOSE x \in unseen : TRUE
         IN 1 + CountComponents(adj, unseen \ DOMAIN ShortestPathLengths(adj, n))

\* a mutant of NumberWeaklyConnectedComponents: every node counts as a component
NumberOfNodes(g) == Cardinality(g.nodes)

\* nx.number_weakly_connected_components(G)
NumberWeaklyConnectedComponents(g) == CountComponents(UndirectedAdj(g), g.nodes)

\* nx.is_weakly_connected(G) of a graph with a node: the component of one
\* node holds every node
IsWeaklyConnected(g) ==
    LET n == CHOOSE x \in g.nodes : TRUE
    IN DOMAIN ShortestPathLengths(UndirectedAdj(g), n) = g.nodes

RECURSIVE Sum(_, _)
\* sum(f[x] for x in S)
Sum(f, S) ==
    IF S = {} THEN 0
    ELSE LET x == CHOOSE y \in S : TRUE IN f[x] + Sum(f, S \ {x})

\* max(S) of a non-empty set of numbers
Max(S) == CHOOSE x \in S : \A y \in S : y <= x

\* a dict with the items of f, each value computed once
Table(f) == f @@ EmptyDict

\* the distances from every node to the nodes it reaches
AllDistances(adj) == Table([s \in DOMAIN adj |-> ShortestPathLengths(adj, s)])

\* nx.diameter(G) of a connected undirected graph: the largest eccentricity
Diameter(adj) ==
    LET dist == AllDistances(adj)
    IN Max({Max({dist[s][t] : t \in DOMAIN adj}) : s \in DOMAIN adj})

\* nx.average_shortest_path_length(G) of a connected undirected graph: the
\* sum of the distances over the n(n-1) ordered pairs, 0 for a single node
AverageShortestPathLength(adj) ==
    LET dist == AllDistances(adj)
        n == Cardinality(DOMAIN adj)
        total == Sum(Table([s \in DOMAIN adj |-> Sum(dist[s], DOMAIN adj)]), DOMAIN adj)
    IN IF n = 1 THEN Number(0, 1) ELSE Number(total, n * (n - 1))

RECURSIVE Product(_, _)
\* the product of f[x] over x in S
Product(f, S) ==
    IF S = {} THEN 1
    ELSE LET x == CHOOSE y \in S : TRUE IN f[x] * Product(f, S \ {x})

RECURSIVE CountPaths(_, _, _, _)
\* the numbers of shortest paths from the source, sigma holding those of the
\* nodes nearer than d: a node at distance d gets the sum over its
\* predecessors at distance d - 1
CountPaths(adj, dist, sigma, d) ==
    LET level == {n \in DOMAIN dist : dist[n] = d}
    IN IF level = {} THEN sigma
       ELSE CountPaths(adj, dist,
                sigma @@ [n \in level |->
                    Sum(sigma, {u \in DOMAIN sigma : dist[u] = d - 1 /\ n \in adj[u]})],
                d + 1)

\* the number of shortest paths from source to every node it reaches
ShortestPathCounts(adj, source) ==
    CountPaths(adj, ShortestPathLengths(adj, source), (source :> 1), 1)

\* nx.betweenness_centrality(G) of the DiGraph, normalized: for every node v
\* the sum over the ordered pairs (s, t) of other nodes of the fraction of
\* the shortest paths from s to t that pass through v, divided by
\* (n-1)(n-2) when n > 2.  All scores are over one common denominator
BetweennessCentrality(g) ==
    LET adj == DirectedAdj(g)
        n == Cardinality(g.nodes)
        dist == AllDistances(adj)
        sigma == Table([s \in g.nodes |-> ShortestPathCounts(adj, s)])
        common ==
            Product(Table([s \in g.nodes |-> Product(sigma[s], DOMAIN sigma[s])]), g.nodes)
        through(s, t, v) ==
            IF /\ v \in DOMAIN dist[s]
               /\ t \in DOMAIN dist[v]
               /\ dist[s][v] + dist[v][t] = dist[s][t]
            THEN sigma[s][v] * sigma[v][t] * (common \div sigma[s][t])
            ELSE 0
        sum_of(v) ==
            Sum(Table([s \in g.nodes \ {v} |->
                        Sum(Table([t \in DOMAIN dist[s] \ {s, v} |-> through(s, t, v)]),
                            DOMAIN dist[s] \ {s, v})]),
                g.nodes \ {v})
        scale == IF n > 2 THEN (n - 1) * (n - 2) ELSE 1
    IN Table([v \in g.nodes |-> Number(sum_of(v), common * scale)])

\* the nodes of the greatest centrality; max(centrality, key=centrality.get)
\* gives the one of them that comes first in the node order of the graph,
\* an order the graph of the model does not keep
MostCentral(centrality) ==
    {v \in DOMAIN centrality :
        \A u \in DOMAIN centrality : centrality[u].num <= centrality[v].num}

\* the entries analyze_topology sets before the centrality measures; the
\* except branch with 'N/A' is not reached, as the diameter of a connected
\* graph with a node is defined
TopologyBase(g) ==
    LET degrees == Table([n \in g.nodes |-> Degree(g, n)])
        undirected == UndirectedAdj(g)
    IN ("is_connected" :> IsWeaklyConnected(g))
       @@ ("num_components" :> NumberWeaklyConnectedComponents(g))
       @@ ("hub_nodes" :> {n \in g.nodes : degrees[n] > 2})
       @@ ("max_connections" :> Max({degrees[n] : n \in g.nodes}))
       @@ ("diameter" :> IF IsWeaklyConnected(g)
                         THEN Number(Diameter(undirected), 1)
                         ELSE Text("Disconnected"))
       @@ ("avg_path_length" :> IF IsWeaklyConnected(g)
                                THEN AverageShortestPathLength(undirected)
                                ELSE Text("Disconnected"))

\* analyze_topology of the graph built from the rows read
AnalyzeTopology ==
    /\ program = "viz"
    /\ pc = "load"
    /\ IF graph.nodes = {} THEN analysis' = EmptyDict
       ELSE IF Cardinality(graph.nodes) <= CentralityLimit
       THEN LET centrality == BetweennessCentrality(graph)
            IN \E most_central \in MostCentral(centrality) :
                  analysis' = TopologyBase(graph)
                              @@ ("most_central_node" :> Some(most_central))
                              @@ ("centrality_score" :> centrality[most_central])
       ELSE analysis' = TopologyBase(graph)
    /\ pc' = "analyzed"
    /\ UNCHANGED <<program, nread, connections, route_counts, routes, graph,
                   viz_route_counts, added, routes_by_dest, route_changes, report,
                   newsVars, fileVars>>

InitTopo == program = "viz" /\ DefaultOptions /\ InitFields

\* a run of the visualizer up to its topology analysis
NextTopo ==
    \/ \E row \in TopoRows : pc = "load" /\ nread < MaxTopoRows /\ VizLoadRow(row)
    \/ AnalyzeTopology

SpecTopo == InitTopo /\ [][NextTopo]_vars

(***************************************************************************)
(* SimpleTracerouteAnalyzer.generate_statistics_json and its               *)
(* calculate_network_depth.  A set is iterated in an order the language    *)
(* does not fix, so the search is computed for every order of the          *)
(* neighbours and yields the set of the values it can return.              *)
(***************************************************************************)
\* rows of traceroute_log.csv read before the statistics are generated
MaxDepthRows == 3

\* the orders in which a for loop can visit the set S
Orders(S) ==
    {f \in [1..Cardinality(S) -> S] : \A i, j \in 1..Cardinality(S) : i # j => f[i] # f[j]}

\* a mutant of PopFirst: queue.pop(), which takes the item appended last
PopLast(queue) ==
    [item |-> queue[Len(queue)], rest |-> SubSeq(queue, 1, Len(queue) - 1)]

\* node, depth = queue.pop(0)
PopFirst(queue) == [item |-> Head(queue), rest |-> Tail(queue)]

\* a mutant of LocalMax: the depths add up
LocalSum(local_max, depth) == local_max + depth

\* max(local_max, depth)
LocalMax(local_max, depth) == IF depth > local_max THEN depth ELSE local_max

RECURSIVE DepthSearch(_, _, _, _)
\* the while loop of calculate_network_depth from one start node: the values
\* local_max can have when the queue is empty, each with the number of
\* iterations the loop made from the state given
DepthSearch(conn, queue, visited, local_max) ==
    IF queue = <<>> THEN {[local_max |-> local_max, iterations |-> 0]}
    ELSE LET popped == PopFirst(queue)
             node == popped.item[1]
             depth == popped.item[2]
             unvisited == GetSet(conn, node) \ (visited \cup {node})
             later ==
                 IF node \in visited
                 THEN DepthSearch(conn, popped.rest, visited, local_max)
                 ELSE UNION {DepthSearch(conn,
                                 popped.rest
                                 \o [i \in 1..Len(order) |-> <<order[i], depth + 1>>],
                                 visited \cup {node},
                                 LocalMax(local_max, depth))
                             : order \in Orders(unvisited)}
         IN {[r EXCEPT !.iterations = @ + 1] : r \in later}

\* the searches calculate_network_depth can make from start_node
SearchFrom(conn, start_node) == DepthSearch(conn, <<<<start_node, 0>>>>, {}, 0)

\* calculate_network_depth: for start_node in self.connections, the greatest
\* local_max, and 0 when there is no start node; the set of values it can return
CalculateNetworkDepth(conn) ==
    LET local == Table([start_node \in DOMAIN conn |->
                          {r.local_max : r \in SearchFrom(conn, start_node)}])
    IN {Max({0} \cup {choice[start_node] : start_node \in DOMAIN conn})
        : choice \in {c \in [DOMAIN conn -> 0..Cardinality(AllNodes)] :
                        \A start_node \in DOMAIN conn : c[start_node] \in local[start_node]}}

\* whether the hop list of a row read from disk is recorded
Accepted(row) == row.recent /\ row.success /\ SimpleLoadGuard(row.hops)

\* a mutant of LenRoutes: the rows are counted in the log as it is on disk now
LenRoutesReread == Cardinality({i \in 1..Len(log_file.rows) : Accepted(log_file.rows[i])})

\* len(self.routes)
LenRoutes == routes

\* generate_statistics_json: the dict stats without its timestamp and without
\* 'most_connected', the first node of a sort whose ties fall in set order
GenerateStatistics ==
    /\ program = "simple"
    /\ pc = "load"
    /\ \E network_depth \in CalculateNetworkDepth(connections) :
          analysis' =
              ("total_nodes" :> Cardinality(AllNodes))
              @@ ("analyzed_routes" :> LenRoutes)
              @@ ("node_stats" :> SimpleNodeStats)
              @@ ("route_usage" :> route_counts)
              @@ ("hub_nodes" :> {n \in AllNodes : SimpleNodeStats[n].is_hub})
              @@ ("max_connections" :>
                     Max({0} \cup {SimpleNodeStats[n].total_connections : n \in AllNodes}))
              @@ ("network_depth" :> network_depth)
    /\ pc' = "analyzed"
    /\ UNCHANGED <<program, nread, connections, route_counts, routes, graph,
                   viz_route_counts, added, routes_by_dest, route_changes, report,
                   newsVars, fileVars>>

InitDepth == program = "simple" /\ DefaultOptions /\ InitFields

\* a run of the dependency-free analyzer up to its statistics
NextDepth ==
    \/ \E row \in LinkRows : pc = "load" /\ nread < MaxDepthRows /\ SimpleLoadRow(row)
    \/ GenerateStatistics

SpecDepth == InitDepth /\ [][NextDepth]_vars

(***************************************************************************)
(* The input log on disk.  A collector appends whole rows to it at any      *)
(* time; a program tests that it exists, opens it, iterates the reader to  *)
(* the end of the file once, and works on what it has read.  The rows of   *)
(* routing_log.csv are kept in a list and analyzed afterwards; the model   *)
(* analyzes each as it is read, which builds the same histories.           *)
(***************************************************************************)
\* rows the log can hold
MaxLogRows == 3

\* what the program finds at the path of the log
FileStates == {"missing", "unreadable", "readable"}

\* rows of traceroute_log.csv on disk
TracerouteFileRows ==
    [recent : {TRUE}, success : {TRUE}, hops : {<<"a", "b">>, <<"b", "c">>, <<"TIMEOUT">>}]

\* rows of routing_log.csv on disk
RoutingFileRows ==
    [timestamp : [form : {"naive"}, hour : {Now - 1, Now}],
     destination : {"!d1"},
     source : {"!s1"},
     direction : Directions,
     route_hops : {Path("comma", <<"a", "b">>), Path("comma", <<"a", "c">>)},
     hop_count : {"2"},
     success : {"true"}]

\* rows of nodes_log.csv on disk
NodeFileRows ==
    [ID : {"!n1"},
     LastHeard : {HeardAt(LoadTick - TicksPerHour)},
     Since : {NoTime},
     Hops : {"2", "3"}]

\* the rows the log of a program can hold
FileRows(prog) ==
    CASE prog = "simple" -> TracerouteFileRows
      [] prog = "routes" -> RoutingFileRows
      [] prog = "news" -> NodeFileRows

\* the collector appends a row to the log, which creates a log that is missing
CollectorAppend(row) ==
    /\ Len(log_file.rows) < MaxLogRows
    /\ log_file' = [state |-> IF log_file.state = "missing" THEN "readable"
                              ELSE log_file.state,
                    rows |-> Append(log_file.rows, row)]
    /\ UNCHANGED <<program, nread, buildVars, routeVars, newsVars, handle, len_at_open>>

\* os.path.exists and open of the log: a missing log leaves the list of rows
\* empty in all three programs; open raises on an unreadable one, which
\* load_traceroute_data catches and prints, generate_routing_topology_section
\* turns into its error text, and main of the network news does not catch
OpenLog ==
    /\ handle = "unopened"
    /\ pc = "load"
    /\ len_at_open' = Len(log_file.rows)
    /\ handle' = CASE log_file.state = "missing" -> "absent"
                   [] log_file.state = "unreadable" -> "denied"
                   [] OTHER -> "open"
    /\ pc' = IF log_file.state = "unreadable" /\ program = "routes" THEN "failed"
             ELSE IF log_file.state = "unreadable" /\ program = "news" THEN "raised"
             ELSE pc
    /\ report' = IF log_file.state = "unreadable" /\ program = "routes" THEN ErrorReport
                 ELSE report
    /\ UNCHANGED <<program, nread, buildVars, routes_by_dest, route_changes, newsVars,
                   log_file>>

\* the reader yields the next row of the log
ReadRow ==
    /\ handle = "open"
    /\ nread < Len(log_file.rows)
    /\ LET row == log_file.rows[nread + 1]
       IN SimpleLoadRow(row) \/ RouteRow(row) \/ LoadNode(row)

\* the reader finds no further row: the for loop ends and the log is closed
ReachEndOfFile ==
    /\ handle = "open"
    /\ nread = Len(log_file.rows)
    /\ handle' = "closed"
    /\ UNCHANGED <<program, nread, buildVars, routeVars, newsVars, log_file, len_at_open>>

\* the reading of the log is over
Loaded == handle \in {"closed", "absent", "denied"}

\* main of the network news: if not current_nodes, print and return
NoNodesData ==
    /\ program = "news"
    /\ pc = "load"
    /\ Loaded
    /\ news_nodes = <<>>
    /\ pc' = "returned"
    /\ UNCHANGED <<program, nread, buildVars, routes_by_dest, route_changes, report,
                   newsVars, fileVars>>

InitFiles ==
    /\ program \in {"simple", "routes", "news"}
    /\ DefaultOptions
    /\ InitProgram
    /\ log_file \in {[state |-> st, rows |-> <<>>] : st \in FileStates}
                    \cup {[state |-> "readable", rows |-> <<row>>] : row \in FileRows(program)}
    /\ handle = "unopened"
    /\ len_at_open = 0

\* a run of one of the three programs on a log that a collector appends to
NextFiles ==
    \/ \E row \in FileRows(program) : CollectorAppend(row)
    \/ OpenLog
    \/ ReadRow
    \/ ReachEndOfFile
    \/ Loaded /\ GenerateStatistics
    \/ Loaded /\ DetectChanges
    \/ Loaded /\ GenerateTopology
    \/ Loaded /\ news_nodes # <<>> /\ FilterNodes
    \/ NoNodesData

SpecFiles == InitFiles /\ [][NextFiles]_vars

(***************************************************************************)
(* analyze_current_routes on a whole log given in some order.              *)
(***************************************************************************)
\* rows of the log whose order is varied
MaxOrderRows == 3

\* rows of one destination: forward with either of two paths and return with
\* one, stamped an hour ago, or now with or without a trailing Z
OrderRows ==
    [timestamp : {[form |-> "naive", hour |-> Now - 1],
                  [form |-> "naive", hour |-> Now],
                  [form |-> "Z", hour |-> Now]},
     destination : {"!d1"},
     source : {"!s1"},
     direction : {"forward"},
     route_hops : {Path("comma", <<"a", "b">>), Path("comma", <<"a", "c">>)},
     hop_count : {"2"},
     success : {"true"}]
    \cup
    [timestamp : {[form |-> "naive", hour |-> Now - 1],
                  [form |-> "naive", hour |-> Now],
                  [form |-> "Z", hour |-> Now]},
     destination : {"!d1"},
     source : {"!s1"},
     direction : {"return"},
     route_hops : {Path("comma", <<"a", "b">>)},
     hop_count : {"2"},
     success : {"true"}]

InitOrder ==
    /\ program = "routes"
    /\ DefaultOptions
    /\ InitProgram
    /\ log_file \in [state : {"readable"}, rows : SeqsOf(OrderRows, 0, MaxOrderRows)]
    /\ handle = "unopened"
    /\ len_at_open = 0

\* a run of the routing section on a log that does not change
NextOrder ==
    \/ OpenLog
    \/ ReadRow
    \/ ReachEndOfFile
    \/ Loaded /\ DetectChanges
    \/ Loaded /\ GenerateTopology

SpecOrder == InitOrder /\ [][NextOrder]_vars

(***************************************************************************)
(* The two traceroute programs run one after the other on the same log.    *)
(* The dependency-free analyzer reads it with csv.DictReader, which yields *)
(* every cell as the text it holds.  The visualizer reads it with          *)
(* pandas.read_csv, which infers a type for every column: a column whose   *)
(* cells all spell true or false, in any case, becomes a column of         *)
(* booleans, and any other column of texts is left as it is.  The hop      *)
(* fields of the rows are texts that pandas leaves as they are.            *)
(***************************************************************************)
\* rows of the log that both programs read
MaxPairRows == 3

\* the spellings pandas reads as a boolean, of which the log holds two
BoolTokens == {"true", "false"}

\* rows of traceroute_log.csv as written: success is the text of the cell
PairRows ==
    [recent : {TRUE},
     success : BoolTokens \cup {"unknown"},
     hops : {<<"a", "b">>, <<"b", "a">>, <<"c", "b">>, <<"TIMEOUT">>}]

\* the row as csv.DictReader yields it to the row loop: row['success'] == 'true'
\* compares two texts
CsvRow(rows, i) ==
    [recent |-> rows[i].recent, success |-> rows[i].success = "true", hops |-> rows[i].hops]

\* pandas.read_csv makes the success column a column of booleans
InferredBool(rows) == \A i \in 1..Len(rows) : rows[i].success \in BoolTokens

\* the row as DataFrame.iterrows yields it to the row loop:
\* row['success'] == 'true' compares a boolean with a text, which is never
\* equal, when the column was inferred to be boolean
PandasRow(rows, i) ==
    [recent |-> rows[i].recent,
     success |-> ~InferredBool(rows) /\ rows[i].success = "true",
     hops |-> rows[i].hops]

\* one row of the log through the row loop of the program that runs
ReadPairRow ==
    /\ handle = "open"
    /\ nread < Len(log_file.rows)
    /\ \/ SimpleLoadRow(CsvRow(log_file.rows, nread + 1))
       \/ VizLoadRow(PandasRow(log_file.rows, nread + 1))

\* the visualizer is started on the log once the analyzer has read it
RunVisualizer ==
    /\ program = "simple"
    /\ handle = "closed"
    /\ program' = "viz"
    /\ nread' = 0
    /\ handle' = "unopened"
    /\ UNCHANGED <<buildVars, routeVars, newsVars, log_file, len_at_open>>

InitPair ==
    /\ program = "simple"
    /\ DefaultOptions
    /\ InitProgram
    /\ log_file \in [state : {"readable"}, rows : SeqsOf(PairRows, 0, MaxPairRows)]
    /\ handle = "unopened"
    /\ len_at_open = 0

\* a run of the analyzer and then of the visualizer on a log that does not change
NextPair ==
    \/ OpenLog
    \/ ReadPairRow
    \/ ReachEndOfFile
    \/ RunVisualizer

SpecPair == InitPair /\ [][NextPair]_vars

(***************************************************************************)
(* network_news_analyzer.py: main run twice on the same nodes_log.csv.     *)
(* Of the fields saved for a node the hops and the timestamp are kept; the *)
(* lists of changed names, keys, roles and hardware are left out.          *)
(***************************************************************************)
\* rows of nodes_log.csv in the log that is analyzed twice
MaxNewsRows == 2

\* a tick just outside the default window
OldTick == LoadTick - DefaultNewsConfig.time_window_hours * TicksPerHour - 1

\* rows of two nodes and of a node without id, heard an hour ago or before
\* the window, two or three hops away
NewsRunRows ==
    [ID : {"!n1", "!n2", ""},
     LastHeard : {HeardAt(LoadTick - TicksPerHour), HeardAt(OldTick)},
     Since : {NoTime},
     Hops : {"2", "3"}]

\* {node['id'] for node in nodes if node['id']}
IdsOf(nodes) == {nodes[i].id : i \in 1..Len(nodes)} \ {""}

\* the part of analyze_network_changes after the filter: the new and the lost
\* nodes; new_nodes lists the filtered nodes whose id is new, lost_nodes the
\* previous ids that are not current, in the order of a set
CompareWithPrevious(filtered_nodes, previous_state) ==
    LET current_ids == IdsOf(filtered_nodes)
        previous_ids == DOMAIN previous_state
        new_ids == current_ids \ previous_ids
        lost_ids == previous_ids \ current_ids
    IN [new_nodes |-> SelectSeq([i \in 1..Len(filtered_nodes) |-> filtered_nodes[i].id],
                                LAMBDA id : id \in new_ids),
        lost_nodes |-> lost_ids,
        total_active_nodes |-> Cardinality(current_ids)]

\* main: load_previous_state and analyze_network_changes, which filters the
\* nodes loaded some time after the load and compares them with the state
AnalyzeNetworkChanges ==
    /\ program = "news"
    /\ pc = "load"
    /\ \E e \in Elapsed : news_clock' = news_clock + e
    /\ news_filtered' = FilterByTimeAndHops(news_nodes, news_cfg.time_window_hours,
                                            news_cfg.max_hops, news_clock')
    /\ news' = CompareWithPrevious(news_filtered', state_file)
    /\ pc' = "reported"
    /\ UNCHANGED <<program, nread, args_hours, news_cfg, news_nodes, state_file, run,
                   buildVars, routes_by_dest, route_changes, report, fileVars>>

\* the state save_current_state writes for the nodes it is given: an entry
\* for every id that is not empty, holding the fields of its last row
SavedState(nodes) ==
    [id \in IdsOf(nodes) |->
        LET last == CHOOSE i \in 1..Len(nodes) :
                        /\ nodes[i].id = id
                        /\ \A j \in (i + 1)..Len(nodes) : nodes[j].id # id
        IN [hops |-> nodes[last].hops, timestamp |-> nodes[last].timestamp]]

\* main: save_current_state(current_nodes)
SaveCurrentState ==
    /\ program = "news"
    /\ pc = "reported"
    /\ state_file' = SavedState(news_nodes)
    /\ pc' = "saved"
    /\ UNCHANGED <<program, nread, args_hours, news_cfg, news_nodes, news_filtered,
                   news_clock, news, run, buildVars, routes_by_dest, route_changes,
                   report, fileVars>>

\* the network news is started again on the same log at the same clock
RunAgain ==
    /\ program = "news"
    /\ pc = "saved"
    /\ run = 1
    /\ run' = 2
    /\ pc' = "load"
    /\ nread' = 0
    /\ handle' = "unopened"
    /\ news_nodes' = <<>>
    /\ news_filtered' = <<>>
    /\ news' = NoNews
    /\ UNCHANGED <<program, args_hours, news_cfg, news_clock, state_file, buildVars,
                   routes_by_dest, route_changes, report, log_file, len_at_open>>

InitNewsRuns ==
    /\ program = "news"
    /\ DefaultOptions
    /\ InitProgram
    /\ log_file \in [state : {"readable"}, rows : SeqsOf(NewsRunRows, 0, MaxNewsRows)]
    /\ handle = "unopened"
    /\ len_at_open = 0

\* two runs of the network news on a log that does not change
NextNewsRuns ==
    \/ OpenLog
    \/ ReadRow
    \/ ReachEndOfFile
    \/ Loaded /\ news_nodes # <<>> /\ AnalyzeNetworkChanges
    \/ NoNodesData
    \/ SaveCurrentState
    \/ RunAgain

SpecNewsRuns == InitNewsRuns /\ [][NextNewsRuns]_vars

(***************************************************************************)
(* What the claims count: occurrences of a pair in the recorded hop lists. *)
(***************************************************************************)
\* the number of positions of hops at which v immediately follows u
Occ(hops, u, v) ==
    Cardinality({i \in 1..(Len(hops) - 1) : hops[i] = u /\ hops[i + 1] = v})

RECURSIVE SumOcc(_, _, _)
\* the occurrences of <<u, v>> summed over the hop lists S, with multiplicity
SumOcc(S, u, v) ==
    IF S = {} THEN 0
    ELSE LET h == CHOOSE x \in S : TRUE
         IN added[h] * Occ(h, u, v) + SumOcc(S \ {h}, u, v)

\* how often v immediately followed u over all hop lists added so far
Followed(u, v) == SumOcc(BagToSet(added), u, v)

\* C1: the weight of edge (u,v) is the number of times v immediately followed
\* u over all hop lists added so far; an edge exists exactly when that number
\* is positive, there is one entry per ordered pair, and hops [a,b,c] alone
\* give exactly {(a,b):1, (b,c):1}.
C1_WeightIsCount ==
    /\ DOMAIN Weights \subseteq NodeIDs \X NodeIDs
    /\ \A u \in NodeIDs, v \in NodeIDs :
          LET count == Followed(u, v)
          IN /\ <<u, v>> \in Edges <=> count > 0
             /\ RouteKey(u, v) \in DOMAIN Weights <=> count > 0
             /\ count > 0 => Weights[RouteKey(u, v)] = count
    /\ program = "viz" => viz_route_counts = graph.weight
    /\ added = SetToBag({<<"a", "b", "c">>}) =>
          Weights = (<<"a", "b">> :> 1 @@ <<"b", "c">> :> 1)

\* C1 witness: an edge recorded by two different hop lists, one of them by a
\* hop list that holds the pair twice, has weight 3
C1_Witness ==
    /\ Cardinality(BagToSet(added)) = 2
    /\ \E e \in DOMAIN Weights : Weights[e] = 3


\* the program that runs reads row
LoadRow(row) == SimpleLoadRow(row) \/ VizLoadRow(row)

\* C2: add_route called with fewer than 2 node ids is a no-op: the edge map
\* and the node set are left exactly as they were.
C2_ShortRouteNoOp ==
    [][\A row \in NoisyRows :
          (LoadRow(row) /\ Len(ParseHops(row.hops)) < 2)
              => (Nodes' = Nodes /\ Weights' = Weights /\ Edges' = Edges)]_vars

\* the end points of the edges of the program that runs
EndPoints == {e[1] : e \in Edges} \cup {e[2] : e \in Edges}

\* C3: the node set is exactly the union of the end points of the edges, and
\* no node of total degree 0 is in the graph or in the per-node statistics.
C3_NodesAreEndPoints ==
    /\ Nodes = EndPoints
    /\ DOMAIN NodeStats = EndPoints
    /\ \A node \in DOMAIN NodeStats : NodeStats[node].total_connections > 0

\* a hop field that equals a sentinel value
SentinelField(hops_str) ==
    hops_str = <<"">> \/ (Len(hops_str) = 1 /\ hops_str[1] \in SentinelWords)

\* C4: a row whose hop field is NO_ROUTE, TIMEOUT, ERROR, PARSE_ERROR or empty
\* adds no edge and no node and is not counted as an analysed route, and no
\* sentinel word is ever a node of the graph.
C4_SentinelDropped ==
    [][/\ \A row \in NoisyRows :
            (LoadRow(row) /\ SentinelField(row.hops))
                => (Nodes' = Nodes /\ Weights' = Weights /\ routes' = routes)
       /\ Nodes' \cap SentinelWords = {}]_vars

\* the distinct successors and predecessors of a node in the hop lists added
Successors(node) == {v \in NodeIDs : Followed(node, v) > 0}
Predecessors(node) == {u \in NodeIDs : Followed(u, node) > 0}

\* C7: out_degree is the number of distinct successors, in_degree the number
\* of distinct predecessors, total_degree their sum, whatever the weights.
C7_DegreesUnweighted ==
    /\ {n \in NodeIDs : Successors(n) \cup Predecessors(n) # {}} \subseteq DOMAIN NodeStats
    /\ \A node \in DOMAIN NodeStats :
          /\ NodeStats[node].outgoing = Cardinality(Successors(node))
          /\ NodeStats[node].incoming = Cardinality(Predecessors(node))
          /\ NodeStats[node].total_connections =
                Cardinality(Successors(node)) + Cardinality(Predecessors(node))

\* C7 witness: an edge observed three times between nodes of degree 1 and 2
C7_Witness ==
    /\ \E e \in DOMAIN Weights : Weights[e] = 3
    /\ \E n \in DOMAIN NodeStats : NodeStats[n].total_connections = 2
    /\ \E n \in DOMAIN NodeStats : NodeStats[n].total_connections = 1

\* the graph a->b, a->c, d->b of the example, and the same with b->a added
ExampleGraph == {<<"a", "b">>, <<"a", "c">>, <<"d", "b">>}
ExampleGraphPlus == ExampleGraph \cup {<<"b", "a">>}

SentinelPath(path) ==
    path.hops = <<>> \/ (Len(path.hops) = 1 /\ path.hops[1] \in SentinelWords)

\* the (destination, direction) keys that have a history
Keys == (DOMAIN routes_by_dest) \X Directions

\* the history of a key
History(key) == routes_by_dest[key[1]][key[2]]

\* a change event is recorded for the key
HasEvent(key) ==
    key[1] \in DOMAIN route_changes /\ key[2] \in DOMAIN route_changes[key[1]]

\* C5: a row whose hop field is a sentinel value creates no route-history
\* entry, so no sentinel is the current or previous path of a change event
\* or the current path of a destination.
C5_SentinelNoHistory ==
    \A key \in Keys :
        /\ \A i \in 1..Len(History(key)) : ~SentinelPath(History(key)[i].route_hops)
        /\ HasEvent(key) =>
              /\ ~SentinelPath(route_changes[key[1]][key[2]].current)
              /\ ~SentinelPath(route_changes[key[1]][key[2]].previous)

\* the excluded node is the destination, the source or a hop of the row
Involved(row) ==
    \/ row.destination \in BadIDs
    \/ row.source \in BadIDs
    \/ \E i \in 1..Len(row.route_hops.hops) : row.route_hops.hops[i] \in BadIDs

\* C6: a row in which an excluded node is the destination, the source or any
\* hop is removed before analysis: no route-history entry derives from it.
C6_ExcludedRemoved ==
    [][\A row \in RouteRows :
          (RouteRow(row) /\ Involved(row)) => routes_by_dest' = routes_by_dest]_vars

\* the hop list in reversed order
Reverse(hops) == [i \in 1..Len(hops) |-> hops[Len(hops) + 1 - i]]

\* C9: with a current forward and a current return path, the status is
\* Symmetric exactly when the reversed return hop list equals the forward hop
\* list, and Asymmetric otherwise.
C9_SymmetricIffReversed ==
    pc = "reported" =>
        \A d \in DOMAIN routes_by_dest :
            LET fwd == routes_by_dest[d]["forward"]
                ret == routes_by_dest[d]["return"]
            IN (fwd # <<>> /\ ret # <<>>) =>
                  report.status[d] =
                      IF Reverse(ret[Len(ret)].route_hops.hops) = fwd[Len(fwd)].route_hops.hops
                      THEN "Symmetric route"
                      ELSE "Asymmetric route"

\* the paths and the timestamps of a history, in order
PathsOf(history) == [i \in 1..Len(history) |-> history[i].route_hops.hops]
TimesOf(history) == [i \in 1..Len(history) |-> history[i].timestamp]

\* the history [(t1,"a,b"), (t2,"a,b"), (t3,"a,c")] of the example
ExampleHistory(history) ==
    /\ PathsOf(history) = <<(<<"a", "b">>), (<<"a", "b">>), (<<"a", "c">>)>>
    /\ TimesOf(history) = <<Now - 3, Now - 2, Now - 1>>

\* the same with "a,c" seen again at t4
ExampleHistoryRepeated(history) ==
    /\ PathsOf(history) =
          <<(<<"a", "b">>), (<<"a", "b">>), (<<"a", "c">>), (<<"a", "c">>)>>
    /\ TimesOf(history) = <<Now - 3, Now - 2, Now - 1, Now>>

\* C10: once the rows are processed, a key has a change event exactly when it
\* has at least 2 history entries and its newest path equals none of its
\* earlier paths; previous is the path of the entry just before the newest
\* and changed_at the newest timestamp.  [(t1,"a,b"), (t2,"a,b"), (t3,"a,c")]
\* gives one event at t3 with previous "a,b"; "a,c" again at t4 gives no event.
C10_ChangeEvent ==
    pc \in {"analyzed", "reported"} =>
        /\ DOMAIN route_changes \subseteq DOMAIN routes_by_dest
        /\ \A d \in DOMAIN route_changes :
              DOMAIN route_changes[d] # {} /\ DOMAIN route_changes[d] \subseteq Directions
        /\ \A key \in Keys :
              LET h == History(key)
                  n == Len(h)
              IN /\ \A i \in 1..(n - 1) : h[i].timestamp <= h[i + 1].timestamp
                 /\ HasEvent(key) <=>
                       (n >= 2 /\ \A i \in 1..(n - 1) : h[i].route_hops # h[n].route_hops)
                 /\ HasEvent(key) =>
                       /\ route_changes[key[1]][key[2]].current = h[n].route_hops
                       /\ route_changes[key[1]][key[2]].previous = h[n - 1].route_hops
                       /\ route_changes[key[1]][key[2]].changed_at = h[n].timestamp
                 /\ ExampleHistory(h) =>
                       /\ HasEvent(key)
                       /\ route_changes[key[1]][key[2]].previous.hops = <<"a", "b">>
                       /\ route_changes[key[1]][key[2]].changed_at = Now - 1
                 /\ ExampleHistoryRepeated(h) => ~HasEvent(key)

\* C10 witness: the example history analysed, its change event at t3, and the
\* other direction of the destination with a single entry and no event
C10_Witness ==
    /\ pc = "analyzed"
    /\ "!d1" \in DOMAIN routes_by_dest
    /\ ExampleHistory(routes_by_dest["!d1"]["forward"])
    /\ Len(routes_by_dest["!d1"]["return"]) = 1
    /\ DOMAIN route_changes["!d1"] = {"forward"}

(***************************************************************************)
(* Claims about statuses and rejected rows of the routing section.         *)
(***************************************************************************)
\* the directions of a destination that have a successful observation
KnownDirections(by_dest, d) ==
    IF d \notin DOMAIN by_dest THEN {}
    ELSE {dir \in Directions :
            \E i \in 1..Len(by_dest[d][dir]) : by_dest[d][dir][i].success}

\* C11: the status of a destination is Partial exactly when only one of the
\* two directions has been observed, Failed exactly when neither direction
\* has a successful observation, and Symmetric or Asymmetric only when both
\* directions are known.
C11_StatusByDirections ==
    pc = "reported" =>
        \A d \in DOMAIN report.status :
            LET known == Cardinality(KnownDirections(routes_by_dest, d))
            IN /\ report.status[d] = "Partial route" <=> known = 1
               /\ report.status[d] = "Route failed" <=> known = 0
               /\ report.status[d] \in {"Symmetric route", "Asymmetric route"}
                     => known = 2

\* the state of a destination while the rows are processed, read off the
\* status generate_topology_html would give it
StateOf(by_dest, d) ==
    IF d \notin DOMAIN by_dest THEN "NoData"
    ELSE CASE StatusOf(by_dest[d]) = "Route failed" -> "NoData"
           [] StatusOf(by_dest[d]) = "Partial route" ->
                 IF by_dest[d]["forward"] # <<>> THEN "Forward-Only" ELSE "Return-Only"
           [] OTHER -> "Both-Known"

\* how far along NoData, Partial, Both-Known a state is
Rank(state) ==
    CASE state = "NoData" -> 0
      [] state \in {"Forward-Only", "Return-Only"} -> 1
      [] OTHER -> 2

\* the destinations of the malformed row set
BatchDests == {row.destination : row \in BatchRows}

\* C12: while the rows of one run are processed the state of a destination
\* only moves forward along NoData, Partial, Both-Known; it moves only on a
\* successful row for that destination, and an unsuccessful row leaves it
\* unchanged.
C12_ForwardOnSuccess ==
    [][\A row \in BatchRows : \A d \in BatchDests :
          RouteRow(row) =>
              LET before == StateOf(routes_by_dest, d)
                  after == StateOf(routes_by_dest', d)
              IN /\ Rank(after) >= Rank(before)
                 /\ Rank(before) = 1 /\ Rank(after) = 1 => after = before
                 /\ after # before => row.destination = d /\ row.success = "true"]_vars

\* C13: a row that cannot be turned into an observation is skipped and the
\* rows after it are still processed: no row ends the analysis or makes the
\* section return its error text.
C13_NoRowAborts ==
    [][\A row \in BatchRows :
          RouteRow(row) => (pc' = "load" /\ ~report'.error)]_vars

\* the number of history entries over all destinations and directions
EntryCount ==
    Cardinality({x \in (DOMAIN routes_by_dest) \X Directions \X (1..nread) :
                    x[3] <= Len(routes_by_dest[x[1]][x[2]])})

\* C14: a row that ends up rejected, that is, adds no history entry, has no
\* side effect: the known destinations and every history are as before.
C14_RejectedNoEffect ==
    [][\A row \in BatchRows :
          (RouteRow(row) /\ EntryCount' = EntryCount)
              => routes_by_dest' = routes_by_dest]_vars

(***************************************************************************)
(* Claims about the window filter of the network news.                     *)
(***************************************************************************)
\* the node was observed within the configured window of the time of the
\* filter and is at most max_hops away
InWindowAndNear(node) ==
    /\ news_clock - node.timestamp <= news_cfg.time_window_hours * TicksPerHour
    /\ node.hops <= news_cfg.max_hops

\* C15: the window filter retains a node exactly when its timestamp is within
\* time_window_hours of now and its hop count is at most max_hops, and it
\* returns the retained nodes in their input order.
C15_FilterRetains ==
    pc = "filtered" => news_filtered = SelectSeq(news_nodes, InWindowAndNear)

\* C15 witness: of three nodes one is too old, one is recent but too far, and
\* one at exactly max_hops is retained
C15_Witness ==
    /\ pc = "filtered"
    /\ Len(news_nodes) = 3
    /\ Len(news_filtered) = 1
    /\ news_filtered[1].hops = news_cfg.max_hops
    /\ \E i \in 1..3 :
          /\ news_nodes[i].hops <= news_cfg.max_hops
          /\ news_clock - news_nodes[i].timestamp >
                news_cfg.time_window_hours * TicksPerHour
    /\ \E i \in 1..3 :
          /\ news_nodes[i].hops > news_cfg.max_hops
          /\ news_clock - news_nodes[i].timestamp <=
                news_cfg.time_window_hours * TicksPerHour

\* neither the LastHeard nor the Since cell of the node gave a timestamp
LacksTimestamp(node) ==
    node.last_heard.form # "datetime" /\ node.since.form # "hours ago"

\* the node lacks a timestamp and is at most max_hops away
LacksTimestampAndNear(node) == LacksTimestamp(node) /\ node.hops <= news_cfg.max_hops

\* C16: a node record without a usable timestamp is treated as observed now
\* and is never removed by the recency cutoff, whatever time_window_hours
\* is; only the hop cap can remove it.
C16_NoTimestampKept ==
    /\ \A i \in 1..Len(news_nodes) :
          LacksTimestamp(news_nodes[i]) => news_nodes[i].timestamp = LoadTick
    /\ pc = "filtered" =>
          SelectSeq(news_filtered, LacksTimestamp)
              = SelectSeq(news_nodes, LacksTimestampAndNear)

(***************************************************************************)
(* Claims about the recency window of the topology and the route history.  *)
(***************************************************************************)
\* the traceroute program that runs reads the dated row
DatedLoadRow(row) == DatedSimpleLoadRow(row) \/ DatedVizLoadRow(row)

\* C17: the windowing of the topology and of the route history applies the
\* recency cutoff only and never the hop cap: a successful route inside the
\* window the loader applies is retained whatever its hop count, also when
\* that is greater than max_hops.
C17_NoHopCap ==
    [][/\ \A row \in DatedRows :
            (DatedLoadRow(row) /\ row.success /\ Recent(row.timestamp, LoadHours))
                => /\ added' = added (+) SetToBag({row.hops})
                   /\ program = "simple" => routes' = routes + 1
       /\ \A row \in DatedRouteRows :
            (RouteRow(row) /\ Now - row.timestamp.hour <= DefaultTimeWindowHours)
                => LET before == routes_by_dest
                       after == routes_by_dest'[row.destination][row.direction]
                   IN /\ Len(after) = 1 + (IF row.destination \in DOMAIN before
                                           THEN Len(before[row.destination][row.direction])
                                           ELSE 0)
                      /\ after[Len(after)].hop_count = ParseHopCount(row.hop_count).value
                      /\ after[Len(after)].timestamp = row.timestamp.hour]_vars

\* C17 witness: an observation of more than max_hops hops has been retained,
\* in the route history or in the topology
C17_Witness ==
    \/ /\ program = "routes"
       /\ \E key \in Keys : \E i \in 1..Len(History(key)) :
             History(key)[i].hop_count > news_cfg.max_hops
    \/ /\ program \in {"simple", "viz"}
       /\ \E h \in BagToSet(added) : Len(h) - 1 > news_cfg.max_hops
       /\ <<"c", "d">> \in Edges

\* C18: the recency window applied when the topology is built is the
\* configured one, the --hours value: a successful route older than
\* args.hours is excluded and one inside args.hours is included.
C18_ConfiguredWindow ==
    [][\A row \in DatedRows :
          (DatedLoadRow(row) /\ row.success)
              => (added' # added <=> Now - row.timestamp <= args_hours)]_vars

(***************************************************************************)
(* Claims about the topology analysis of the visualizer.                   *)
(***************************************************************************)
\* the two nodes are the ends of a link, in either direction
Linked(u, v) == <<u, v>> \in DOMAIN graph.weight \/ <<v, u>> \in DOMAIN graph.weight

RECURSIVE JoinedTo(_)
\* the nodes that links taken in either direction join to a node of S
JoinedTo(S) ==
    LET T == S \cup {v \in graph.nodes : \E u \in S : Linked(u, v)}
    IN IF T = S THEN S ELSE JoinedTo(T)

\* the components of the undirected projection of the graph
Components == {JoinedTo({n}) : n \in graph.nodes}

\* the topology analysis of a graph with a node has been made
Analyzed == program = "viz" /\ pc = "analyzed" /\ graph.nodes # {}

C20_CentralityGuard ==
    Analyzed =>
        /\ {"most_central_node", "centrality_score"} \subseteq DOMAIN analysis
        /\ Cardinality(graph.nodes) <= CentralityLimit =>
              /\ ~analysis["most_central_node"].none
              /\ analysis["most_central_node"].node \in graph.nodes
        /\ Cardinality(graph.nodes) > CentralityLimit =>
              /\ analysis["most_central_node"] = None
              /\ analysis["centrality_score"].num = 0

\* reached: a graph of exactly 50 nodes has been analysed with its centrality
CentralityAtLimit ==
    /\ Analyzed
    /\ Cardinality(graph.nodes) = CentralityLimit
    /\ "most_central_node" \in DOMAIN analysis

(***************************************************************************)
(* The network depth of the statistics.                                    *)
(***************************************************************************)
\* the statistics of the dependency-free analyzer have been generated
StatsGenerated == program = "simple" /\ pc = "analyzed"

\* the successors of every node of the connections
ConnectionAdj == [n \in AllNodes |-> GetSet(connections, n)]

\* the directed eccentricity of a start node: the greatest shortest-path hop
\* count from it to a node reachable along outgoing edges
Eccentricity(start) ==
    LET dist == ShortestPathLengths(ConnectionAdj, start)
    IN Max({dist[n] : n \in DOMAIN dist})

\* C21: the network depth of the statistics is the greatest directed
\* eccentricity over all start nodes, and 0 when the graph has no node
C21_DepthIsMaxEccentricity ==
    StatsGenerated =>
        analysis["network_depth"] = Max({0} \cup {Eccentricity(n) : n \in AllNodes})

\* statistics of a graph in which a node is reached at depth 1 by one edge and
\* at depth 2 by another path, the greatest eccentricity being 1
C21_Witness ==
    /\ StatsGenerated
    /\ analysis["network_depth"] = 1
    /\ \E u, v, w \in AllNodes :
          /\ Cardinality({u, v, w}) = 3
          /\ {v, w} \subseteq GetSet(connections, u)
          /\ w \in GetSet(connections, v)

\* the connections are exactly the cycle a -> b -> c -> a
IsCycle == connections = ("a" :> {"b"}) @@ ("b" :> {"c"}) @@ ("c" :> {"a"})

\* C22 as stated: the network depth is at most |nodes| - 1 on every graph
C22_DepthBelowNodesAsStated ==
    StatsGenerated => analysis["network_depth"] <= Cardinality(AllNodes) - 1

\* C22, amended: on every graph, cycles and self-loops included, each search
\* of the depth calculation ends within 1 + |edges| iterations, and the depth
\* is at most |nodes| - 1 on a graph with a node, 0 on the graph without
\* nodes, and at most 2 on the cycle a -> b -> c -> a
C22_DepthTerminatesBounded ==
    /\ program = "simple" =>
          \A start_node \in DOMAIN connections :
             \A r \in SearchFrom(connections, start_node) :
                r.iterations <= 1 + Cardinality(Edges)
    /\ StatsGenerated =>
          /\ AllNodes # {} => analysis["network_depth"] <= Cardinality(AllNodes) - 1
          /\ AllNodes = {} => analysis["network_depth"] = 0
          /\ IsCycle => analysis["network_depth"] <= 2

\* statistics of the cycle a -> b -> c -> a, of depth 2
C22_Witness == StatsGenerated /\ IsCycle /\ analysis["network_depth"] = 2

(***************************************************************************)
(* The log read in one pass while a collector appends to it.               *)
(***************************************************************************)
\* the rows the reader has yielded: those on disk before the end of the file
\* was reached
Snapshot == SubSeq(log_file.rows, 1, nread)

RECURSIVE SimpleStateOf(_)
\* connections, route_counts and the number of routes that the rows give
SimpleStateOf(rows) ==
    IF rows = <<>> THEN [connections |-> EmptyDict, route_counts |-> EmptyDict, routes |-> 0]
    ELSE LET before == SimpleStateOf(SubSeq(rows, 1, Len(rows) - 1))
             row == rows[Len(rows)]
             st == AnalyzeRoute([connections |-> before.connections,
                                 route_counts |-> before.route_counts], row.hops)
         IN IF Accepted(row)
            THEN [connections |-> st.connections, route_counts |-> st.route_counts,
                  routes |-> before.routes + 1]
            ELSE before

RECURSIVE HistoriesOf(_)
\* the route histories that the rows give, in the order read
HistoriesOf(rows) ==
    IF rows = <<>> THEN EmptyDict
    ELSE LET before == HistoriesOf(SubSeq(rows, 1, Len(rows) - 1))
             row == rows[Len(rows)]
         IN IF Excluded(row) THEN before
            ELSE AnalyzeRow(before, row, DefaultTimeWindowHours)

\* the histories of the rows, each sorted by timestamp
SortedHistoriesOf(rows) ==
    LET by_dest == HistoriesOf(rows)
    IN [d \in DOMAIN by_dest |-> [dir \in Directions |-> SortByTimestamp(by_dest[d][dir])]]

\* C23: with a collector appending to the log during the run, no row is read
\* once the end of the file was reached, and the graph, the statistics, the
\* route histories and the report all come from the rows read in that pass
C23_OnePassSnapshot ==
    /\ [][Loaded => nread' = nread]_vars
    /\ [](program = "simple" /\ Loaded =>
            LET st == SimpleStateOf(Snapshot)
            IN /\ connections = st.connections
               /\ route_counts = st.route_counts
               /\ routes = st.routes
               /\ pc = "analyzed" =>
                     /\ analysis["route_usage"] = st.route_counts
                     /\ analysis["analyzed_routes"] = st.routes
                     /\ DOMAIN analysis["node_stats"] =
                            DOMAIN st.connections
                            \cup UNION {st.connections[n] : n \in DOMAIN st.connections}
                     /\ analysis["network_depth"] \in CalculateNetworkDepth(st.connections))
    /\ [](program = "routes" /\ pc = "reported" =>
            LET sorted == SortedHistoriesOf(Snapshot)
            IN /\ routes_by_dest = sorted
               /\ DOMAIN sorted # {} =>
                     /\ report.status = [d \in DOMAIN sorted |-> StatusOf(sorted[d])]
                     /\ report.total_destinations = Cardinality(DOMAIN sorted)
                     /\ report.route_changes =
                            Cardinality({d \in DOMAIN sorted :
                                \E dir \in Directions : HasChange(sorted[d][dir])}))

\* statistics of a log that got one row while it was read, which was counted,
\* and another after the end of the file was reached, which was not
C23_Witness ==
    /\ StatsGenerated
    /\ len_at_open < nread
    /\ nread < Len(log_file.rows)
    /\ Accepted(log_file.rows[nread])
    /\ Accepted(log_file.rows[nread + 1])
    /\ analysis["analyzed_routes"] = nread

(***************************************************************************)
(* The log that is missing or cannot be read.                              *)
(***************************************************************************)
\* C24: when the log is missing or unreadable the program neither raises nor
\* gives up with an error: it goes on with no rows from that log
C24_MissingOrUnreadableNotFatal ==
    handle \in {"absent", "denied"} => pc \notin {"raised", "failed"} /\ ~report.error

(***************************************************************************)
(* The order of the route histories.                                       *)
(***************************************************************************)
\* analyze_current_routes has returned
RoutesAnalyzed == program = "routes" /\ pc \in {"analyzed", "reported"}

\* the timestamps of the history never go down
Ascending(history) ==
    \A i, j \in 1..Len(history) : i < j => history[i].timestamp <= history[j].timestamp

\* what is left of the histories of a destination when only the last entry
\* of each is kept
LastOnly(dest_data) ==
    [dir \in Directions |->
        IF dest_data[dir] = <<>> THEN <<>> ELSE <<dest_data[dir][Len(dest_data[dir])]>>]

\* C25: after analysis every history is in ascending timestamp order, its
\* last entry has the greatest timestamp, and that entry is the current path
\* of the change event and of the status of the destination
C25_HistoriesAscending ==
    RoutesAnalyzed =>
        \A d \in DOMAIN routes_by_dest :
            /\ \A dir \in Directions :
                  LET history == routes_by_dest[d][dir]
                  IN /\ Ascending(history)
                     /\ \A i \in 1..Len(history) :
                           history[i].timestamp <= history[Len(history)].timestamp
                     /\ (d \in DOMAIN route_changes /\ dir \in DOMAIN route_changes[d]) =>
                           /\ route_changes[d][dir].current = history[Len(history)].route_hops
                           /\ route_changes[d][dir].changed_at = history[Len(history)].timestamp
            /\ (pc = "reported" /\ ~report.error) =>
                  report.status[d] = StatusOf(LastOnly(routes_by_dest[d]))

\* a report of a log whose first forward row is later than its second: the
\* history is in time order, and the current path of the change event and of
\* the status is that of the first row read
C25_Witness ==
    /\ program = "routes"
    /\ pc = "reported"
    /\ nread = 3
    /\ Snapshot[1].direction = "forward"
    /\ Snapshot[2].direction = "forward"
    /\ Snapshot[3].direction = "return"
    /\ Snapshot[1].timestamp.hour > Snapshot[2].timestamp.hour
    /\ Snapshot[1].route_hops # Snapshot[2].route_hops
    /\ Snapshot[3].route_hops = Snapshot[1].route_hops
    /\ route_changes["!d1"]["forward"].current = Snapshot[1].route_hops
    /\ report.status["!d1"] = "Symmetric route"

(***************************************************************************)
(* The summary line of the topology section.                               *)
(***************************************************************************)
\* the section shows a summary and a status for every destination
Reported == program = "routes" /\ pc = "reported" /\ ~report.error

\* C26: the number shown as 'Asymmetric' in the summary is the number of
\* destinations whose status in the same report is 'Asymmetric route'
C26_AsymmetricCountsStatus ==
    (Reported /\ DOMAIN routes_by_dest # {}) =>
        report.asymmetric_routes =
            Cardinality({d \in DOMAIN report.status : report.status[d] = "Asymmetric route"})

(***************************************************************************)
(* The order of the input records.                                         *)
(***************************************************************************)
\* the rows in the order p of their positions
Permuted(rows, p) == [i \in 1..Len(rows) |-> rows[p[i]]]

\* the change events of sorted histories
ChangesOf(sorted) ==
    LET changed(d) == {dir \in Directions : HasChange(sorted[d][dir])}
    IN [d \in {x \in DOMAIN sorted : changed(x) # {}} |->
            [dir \in changed(d) |-> ChangeOf(sorted[d][dir])]]

\* what analyze_current_routes returned is what it returns for the rows read
\* in every other order
SameInEveryOrder ==
    \A p \in Orders(1..nread) :
        LET sorted == SortedHistoriesOf(Permuted(Snapshot, p))
        IN routes_by_dest = sorted /\ route_changes = ChangesOf(sorted)

\* two rows of the same destination and direction
SameKey(r1, r2) == r1.destination = r2.destination /\ r1.direction = r2.direction

BothLoaded == program = "viz" /\ handle = "closed"

\* the edges of the connections of the dependency-free analyzer
SimpleEdges == {<<u, v>> \in AllNodes \X AllNodes : v \in GetSet(connections, u)}

\* C28: on the same records the two programs build the same edges with the
\* same weights, and give every node that has an edge the same unweighted
\* total degree and the same hub flag
C28_SameTopology ==
    BothLoaded =>
        /\ SimpleEdges = DOMAIN graph.weight
        /\ \A e \in SimpleEdges :
              /\ route_counts[e] = viz_route_counts[e]
              /\ route_counts[e] = graph.weight[e]
        /\ \A n \in AllNodes :
              /\ SimpleNodeStats[n].total_connections = VizNodeStats[n].total_connections
              /\ SimpleNodeStats[n].is_hub = VizNodeStats[n].is_hub

(***************************************************************************)
(* The network news of a second run.                                       *)
(***************************************************************************)
\* C29: the second of two runs on the same node log, with the same now, the
\* same window and the same hop cap, reports no new node and no lost node
C29_SecondRunQuiet ==
    (program = "news" /\ run = 2 /\ pc = "reported" /\ news_clock = LoadTick) =>
        news.new_nodes = <<>> /\ news.lost_nodes = {}

(***************************************************************************)
(* The change events of the analysis.                                      *)
(***************************************************************************)
\* the keys that have a change event
ChangedKeys ==
    {key \in (DOMAIN route_changes) \X Directions : key[2] \in DOMAIN route_changes[key[1]]}

\* C30: every change event has a current path that differs from its
\* previous path, and a (destination, direction) key has one event at most:
\* its entry of route_changes is a single event, for a key that has a history
C30_ChangeEventsDiffer ==
    RoutesAnalyzed =>
        /\ \A d \in DOMAIN route_changes :
              /\ d \in DOMAIN routes_by_dest
              /\ DOMAIN route_changes[d] \subseteq Directions
        /\ \A key \in ChangedKeys :
              LET event == route_changes[key[1]][key[2]]
              IN /\ DOMAIN event = {"current", "previous", "changed_at"}
                 /\ event.current # event.previous
                 /\ Len(routes_by_dest[key[1]][key[2]]) > 1

\* an analysis with a change event of a history of three entries or more, in
\* which a path occurs twice
C30_Witness ==
    /\ RoutesAnalyzed
    /\ <<"!d1", "forward">> \in ChangedKeys
    /\ LET history == routes_by_dest["!d1"]["forward"]
       IN /\ Len(history) >= 3
          /\ history[1].route_hops = history[2].route_hops

====
